---- MODULE Spec2Model ----
(***************************************************************************)
(* StarkShift: the CEX-DEX arbitrage decision loop (Arbitrage.run), the    *)
(* per-venue forwarding tasks (_merge_queues), the two submission calls    *)
(* gathered per opportunity, and the spread / amount policies.             *)
(*                                                                         *)
(* Decimal values are modelled as integers; a quotient of two Decimals is  *)
(* kept as the exact fraction [num, den].  At the magnitudes of the model  *)
(* the 28-digit rounding of Decimal division cannot change the outcome of  *)
(* a comparison with the threshold, so comparisons are done by cross       *)
(* multiplication.  Division by zero raises (the default Decimal context   *)
(* traps DivisionByZero and InvalidOperation).                             *)
(***************************************************************************)
EXTENDS Integers, Sequences, FiniteSets, TLC

\* ------------------------------------------------------------------ bounds
MaxPrice == 2
MaxAmount == 1
MaxTickers == 3
MaxWalletEvents == 2
MaxInFlight == 1
ThresholdDen == 2
MaxMonitorTickers == 4

Min(S) == CHOOSE x \in S : \A y \in S : x <= y

Max(S) == CHOOSE x \in S : \A y \in S : x >= y

\* what the venues report while run consumes the merged stream
Bids == 0 .. MaxPrice
Asks == 1 .. MaxPrice
Amounts == 1 .. MaxAmount
WalletAmounts == 1 .. MaxAmount
\* what the policies are given when they are applied on their own; the
\* literals are the figures of the worked examples
PolicyPrices == ((0 - MaxPrice) .. MaxPrice) \cup {100, 105}
PolicyAmounts == (0 .. MaxAmount) \cup {5, 8, 10, 20}
\* the quotes of the end-to-end scenario: the first venue asks 100, the second
\* bids 106; each venue's other side lies on the far side of its own quote
ScenarioPrices == {99, 100, 106, 107}

\* ------------------------------------------------------------- the program
Venues == {"binance", "avnu"}
exchanges == <<"binance", "avnu">>
BaseName == "BASE"
QuoteName == "QUOTE"
TokenNames == {BaseName, QuoteName}
Legs == {"buy", "sell"}

\* slip: the sentinels are a lowest price and its negative, not infinities
LowestPrice == Min(1 .. MaxPrice)

\* Decimal("INFINITY") and Decimal("-INFINITY"): above, below every price
Infinity == Max((0 .. MaxPrice) \cup ScenarioPrices) + 1
NegInfinity == 0 - Infinity

Ticker(raw, bid, bid_amount, ask, ask_amount) ==
    [type |-> "Ticker", raw |-> raw, bid |-> bid, bid_amount |-> bid_amount,
     ask |-> ask, ask_amount |-> ask_amount]

\* the raw payload of a wallet snapshot is not modelled
Wallet(token, amount) == [type |-> "Wallet", token |-> token, amount |-> amount]

WalletEmpty(token) == Wallet(token, 0)

Order(amount, price, side) ==
    [type |-> "Order", amount |-> amount, price |-> price, order |-> side]

NoRaw == <<>>

VARIABLES
    cfg,            \* spread_threshold, trade_amount, min_trade_amount
    venueQ,         \* per venue: the queue subscribe_ticker returned
    queue,          \* self._queue: the merged stream of (msg, exchange)
    best_bid, best_ask, exchange_ask, exchange_bid, wallets,  \* locals of run
    pc,             \* where run is: "get", "gather", "failed"
    legs,           \* the two gathered submission calls
    due,            \* per venue: fills the venue has still to report
    calls,          \* history: the buy and sell calls made so far
    unacked,        \* history: per venue, legs issued minus Order events consumed
    last,           \* history: what the last iteration of run did
    seen,           \* history: asks and bids of the tickers run has processed
    nTickers, nWallets,  \* events the venues have produced
    probe,          \* a policy applied on its own: inputs and result
    fetch,          \* AVNU: per _fetch_balance task, the tokens it has still to fetch
    fault,          \* what the event-loop exception handler was last called with
    monitor,        \* SpreadMonitor.run: last_prices and the rows written
    script,         \* per venue: a fixed sequence of events it will report
    sent            \* per venue: how many events of its script it has reported

vars == <<cfg, venueQ, queue, best_bid, best_ask, exchange_ask, exchange_bid,
          wallets, pc, legs, due, calls, unacked, last, seen, nTickers,
          nWallets, probe, fetch, fault,
                   monitor, script, sent>>

runVars == <<cfg, venueQ, queue, best_bid, best_ask, exchange_ask, exchange_bid,
             wallets, pc, legs, due, calls, unacked, last, seen, nTickers,
             nWallets, fetch, fault, monitor, script, sent>>

Fraction(n, d) == [num |-> n, den |-> d]

\* a / b >= c / d for fractions with non-zero denominators
FractionGE(a, b) ==
    IF (a.den > 0) = (b.den > 0)
    THEN a.num * b.den >= b.num * a.den
    ELSE a.num * b.den <= b.num * a.den

Configs ==
    [threshold : {Fraction(1, ThresholdDen)},
     trade_amount : {MaxAmount},
     min_trade_amount : {0}]

NoLast == [kind |-> "none", same |-> FALSE, spread |-> FALSE, raised |-> FALSE,
           profitable |-> FALSE, sized |-> FALSE, gathered |-> FALSE,
           amount |-> 0, copies |-> <<>>]

IdleLegs == [l \in Legs |-> [state |-> "idle", venue |-> exchanges[1], result |-> "None"]]

NoProbe == [fn |-> "none", in |-> <<>>, out |-> <<>>]

NoScript == [v \in Venues |-> <<>>]

NoFault == [handled |-> FALSE, logged |-> FALSE, exception |-> FALSE, stop |-> FALSE]

NoMonitor == [last_prices |-> <<>>, db |-> <<>>, taken |-> 0]

\* run before its first event, the venues before their first report
StartOfRun ==
    /\ venueQ = [v \in Venues |-> <<>>]
    /\ queue = <<>>
    /\ best_bid = Ticker(NoRaw, NegInfinity, 0, 0, 0)
    /\ best_ask = Ticker(NoRaw, 0, 0, Infinity, 0)
    /\ exchange_ask = exchanges[1]
    /\ exchange_bid = exchanges[1]
    /\ wallets = [v \in Venues |-> [t \in TokenNames |-> WalletEmpty(t)]]
    /\ pc = "get"
    /\ legs = IdleLegs
    /\ due = [v \in Venues |-> <<>>]
    /\ calls = <<>>
    /\ unacked = [v \in Venues |-> 0]
    /\ last = NoLast
    /\ seen = [asks |-> {}, bids |-> {}]
    /\ nTickers = 0
    /\ nWallets = 0
    /\ sent = [v \in Venues |-> 0]
    /\ fetch = <<>>
    /\ fault = NoFault
    /\ monitor = NoMonitor

RunInit ==
    /\ cfg \in Configs
    /\ script = NoScript
    /\ StartOfRun

Init ==
    /\ RunInit
    /\ probe = NoProbe

\* run has not ended with an exception and the event loop has not been stopped
Running == pc \notin {"failed", "stopped"}

\* events produced and not yet taken by run
InFlight == Len(queue) + Len(venueQ[exchanges[1]]) + Len(venueQ[exchanges[2]])

\* ------------------------------------------------------ the venues (inputs)
VenueTicker(v) ==
    /\ Running
    /\ nTickers < MaxTickers
    /\ InFlight < MaxInFlight
    /\ \E bid \in Bids, ask \in Asks, ba \in Amounts, aa \in Amounts :
         venueQ' = [venueQ EXCEPT ![v] =
                      Append(@, Ticker(<<v, nTickers + 1>>, bid, ba, ask, aa))]
    /\ nTickers' = nTickers + 1
    /\ UNCHANGED <<cfg, queue, best_bid, best_ask, exchange_ask, exchange_bid,
                   wallets, pc, legs, due, calls, unacked, last, seen,
                   nWallets, probe, fetch, fault,
                   monitor, script, sent>>

VenueWallet(v) ==
    /\ Running
    /\ nWallets < MaxWalletEvents
    /\ InFlight < MaxInFlight
    /\ \E t \in TokenNames, a \in WalletAmounts :
         venueQ' = [venueQ EXCEPT ![v] = Append(@, Wallet(t, a))]
    /\ nWallets' = nWallets + 1
    /\ UNCHANGED <<cfg, queue, best_bid, best_ask, exchange_ask, exchange_bid,
                   wallets, pc, legs, due, calls, unacked, last, seen,
                   nTickers, probe, fetch, fault,
                   monitor, script, sent>>

\* the venue reports the fill of a leg it was sent
VenueOrder(v) ==
    /\ Running
    /\ due[v] # <<>>
    /\ venueQ' = [venueQ EXCEPT ![v] = Append(@, Head(due[v]))]
    /\ due' = [due EXCEPT ![v] = Tail(@)]
    /\ UNCHANGED <<cfg, queue, best_bid, best_ask, exchange_ask, exchange_bid,
                   wallets, pc, legs, calls, unacked, last, seen, nTickers,
                   nWallets, probe, fetch, fault,
                   monitor, script, sent>>

\* a venue reports the next event of its script
VenueReport(v) ==
    /\ Running
    /\ sent[v] < Len(script[v])
    /\ venueQ' = [venueQ EXCEPT ![v] = Append(@, script[v][sent[v] + 1])]
    /\ sent' = [sent EXCEPT ![v] = @ + 1]
    /\ UNCHANGED <<cfg, queue, best_bid, best_ask, exchange_ask, exchange_bid,
                   wallets, pc, legs, due, calls, unacked, last, seen,
                   nTickers, nWallets, probe, fetch, fault,
                   monitor, script>>

\* ------------------------------------------------------------ _merge_queues
\* slip: the task reads the loop variable of _initialize when it runs, after
\* the loop has ended, so every task tags with the last exchange
PutWithLastExchange(q, val, ex) == Append(q, <<val, exchanges[2]>>)

\* slip: the merged queue holds one element and a put on a full queue is lost
PutNowaitBounded(q, val, ex) == IF Len(q) >= 1 THEN q ELSE Append(q, <<val, ex>>)

\* line 36: self._queue.put((val, ex)) on the unbounded queue of line 29
Put(q, val, ex) == Append(q, <<val, ex>>)

merge_queues(ex) ==
    /\ Running
    /\ venueQ[ex] # <<>>
    /\ queue' = Put(queue, Head(venueQ[ex]), ex)
    /\ venueQ' = [venueQ EXCEPT ![ex] = Tail(@)]
    /\ UNCHANGED <<cfg, best_bid, best_ask, exchange_ask, exchange_bid,
                   wallets, pc, legs, due, calls, unacked, last, seen,
                   nTickers, nWallets, probe, fetch, fault,
                   monitor, script, sent>>

\* ------------------------------------------------------------ the policies
\* Decimal division raises when the divisor is zero
DivisionRaises(den) == den = 0

\* slip: the numerator is taken as ask - bid
calculate_spread_swapped(ask, bid) == Fraction(ask - bid, bid)

\* Arbitrage._calculate_spread: (bid - ask) / bid
calculate_spread(ask, bid) == Fraction(bid - ask, bid)

\* slip: the ask-side balance is not converted with the ask price
calculate_amount_unconverted(trade_amount, ask, bid, wallet_ask, wallet_bid) ==
    LET amount == Min({trade_amount, ask.ask_amount, bid.bid_amount})
    IN  Min({amount, wallet_bid, wallet_ask})

\* Arbitrage._calculate_amount
calculate_amount(trade_amount, ask, bid, wallet_ask, wallet_bid) ==
    LET amount == Min({trade_amount, ask.ask_amount, bid.bid_amount})
    IN  Min({amount, wallet_bid, wallet_ask * ask.ask})

\* slip: the spread is taken relative to the ask
StrategySpreadOverAsk(ask, bid) == Fraction(bid.bid - ask.ask, ask.ask)

\* SimpleSpreadStrategy.spread
StrategySpread(ask, bid) == Fraction(bid.bid - ask.ask, bid.bid)

\* SimpleSpreadStrategy.profitable_trade: (spread >= threshold, spread)
profitable_trade(threshold, ask, bid) ==
    IF DivisionRaises(bid.bid)
    THEN [raised |-> TRUE, profitable |-> FALSE, spread |-> Fraction(0, 1)]
    ELSE [raised |-> FALSE,
          profitable |-> FractionGE(StrategySpread(ask, bid), threshold),
          spread |-> StrategySpread(ask, bid)]

None == "None"

\* SimpleAmountStrategy.calculate_amount: the amount, or None below the minimum
StrategyAmount(trade_amount, min_amount, ask, bid, wallet_ask, wallet_bid) ==
    LET a0 == Min({trade_amount, ask.ask_amount, bid.bid_amount})
        amount == Min({a0, wallet_bid.amount, wallet_ask.amount * ask.ask})
    IN  IF amount < min_amount
        THEN [none |-> TRUE, amount |-> 0]
        ELSE [none |-> FALSE, amount |-> amount]

\* --------------------------------------------------------------------- run
\* slip: the comparison of line 88 is turned round
FoldAskKeepsHighest(msg, ex) ==
    IF msg.ask >= best_ask.ask
    THEN [quote |-> msg, exchange |-> ex]
    ELSE [quote |-> best_ask, exchange |-> exchange_ask]

\* slip: the bid is compared with > instead of >=
FoldBidStrict(msg, ex) ==
    IF msg.bid > best_bid.bid
    THEN [quote |-> msg, exchange |-> ex]
    ELSE [quote |-> best_bid, exchange |-> exchange_bid]

\* slip: line 95 is left out, the venue of the best bid is not updated
FoldBidKeepsVenue(msg, ex) ==
    IF msg.bid >= best_bid.bid
    THEN [quote |-> msg, exchange |-> exchange_bid]
    ELSE [quote |-> best_bid, exchange |-> exchange_bid]

\* lines 88-90 and 93-95: the running extrema and the venues that hold them
FoldAsk(msg, ex) ==
    IF msg.ask <= best_ask.ask
    THEN [quote |-> msg, exchange |-> ex]
    ELSE [quote |-> best_ask, exchange |-> exchange_ask]

FoldBid(msg, ex) ==
    IF msg.bid >= best_bid.bid
    THEN [quote |-> msg, exchange |-> ex]
    ELSE [quote |-> best_bid, exchange |-> exchange_bid]

\* slip: the same-exchange test of line 98 is left out
NeverSameExchange(eb, ea) == FALSE

\* line 98
SameExchange(eb, ea) == eb = ea

\* line 111: spread >= self._threshold
SpreadAboveThreshold(spread, threshold) == FractionGE(spread, threshold)

AboveThreshold(spread) == SpreadAboveThreshold(spread, cfg.threshold)

\* slip: the test of line 120 is left out
NeverBelowMinimum(amount) == FALSE

\* slip: an amount equal to the minimum passes the test of line 120
BelowMinimumStrict(amount) == amount < cfg.min_trade_amount

\* line 120
BelowMinimum(amount) == amount <= cfg.min_trade_amount

\* lines 113-118: the balances handed to _calculate_amount
SizedAmount(ask, bid, ea, eb) ==
    calculate_amount(cfg.trade_amount, ask, bid,
                     wallets[ea][BaseName].amount,
                     wallets[eb][QuoteName].amount)

\* lines 98-121: how far the evaluation of one ticker gets
Evaluate(ask, bid, ea, eb) ==
    IF SameExchange(eb, ea) THEN [stage |-> "same", amount |-> 0]
    ELSE IF DivisionRaises(bid.bid) THEN [stage |-> "raised", amount |-> 0]
    ELSE IF ~AboveThreshold(calculate_spread(ask.ask, bid.bid))
         THEN [stage |-> "below", amount |-> 0]
    ELSE IF BelowMinimum(SizedAmount(ask, bid, ea, eb))
         THEN [stage |-> "small", amount |-> SizedAmount(ask, bid, ea, eb)]
    ELSE [stage |-> "gather", amount |-> SizedAmount(ask, bid, ea, eb)]

\* dataclasses.replace with no changes: a new object with the same fields
dataclasses_replace(obj) == obj

\* lines 105-108: the copy made for the log line, its raw set to the venue
\* itself (no payload, so no quote identifier)
DiagnosticCopy(quote, exchange) ==
    [dataclasses_replace(quote) EXCEPT !.raw = <<exchange>>]

\* slip: ba and bb are the tracked objects themselves, not copies
TrackedAliased(quote, exchange) == DiagnosticCopy(quote, exchange)

\* lines 105-108: the tracked quote after its copy has been made and changed
TrackedAfterCopy(quote, exchange) == quote

\* slip: each call is made on the other venue
GatherCallsOnSwappedVenues(ea, eb, amount, ask, bid) ==
    << [op |-> "buy_market_order", exchange |-> eb, amount |-> amount,
        ticker |-> ask],
       [op |-> "sell_market_order", exchange |-> ea, amount |-> amount,
        ticker |-> bid] >>

\* lines 130-137: the two calls handed to asyncio.gather
GatherCalls(ea, eb, amount, ask, bid) ==
    << [op |-> "buy_market_order", exchange |-> ea, amount |-> amount,
        ticker |-> ask],
       [op |-> "sell_market_order", exchange |-> eb, amount |-> amount,
        ticker |-> bid] >>

\* slip: the calls are awaited one after the other, the sell after the buy
GatherLegsSequential(ea, eb) ==
    [l \in Legs |-> [state |-> IF l = "buy" THEN "started" ELSE "idle",
                     venue |-> IF l = "buy" THEN ea ELSE eb,
                     result |-> None]]

\* asyncio.gather starts both coroutines; each runs to its first network wait
\* before the event loop handles any completion
GatherLegs(ea, eb) ==
    [l \in Legs |-> [state |-> "started",
                     venue |-> IF l = "buy" THEN ea ELSE eb,
                     result |-> None]]

\* slip: the calls are spawned as tasks and run goes on to the next event
NoAwaitGather == "get"

\* where run waits after handing the calls to gather
AwaitGather == "gather"

\* slip: the snapshot is added to the stored balance
MergeWallet(old, msg) == Wallet(msg.token, old.amount + msg.amount)

\* line 85: the stored wallet becomes the snapshot
StoreWallet(old, msg) == msg

run_Wallet ==
    /\ pc = "get"
    /\ queue # <<>>
    /\ Head(queue)[1].type = "Wallet"
    /\ LET msg == Head(queue)[1]
           exchange == Head(queue)[2]
       IN  wallets' = [wallets EXCEPT ![exchange][msg.token] = StoreWallet(@, msg)]
    /\ queue' = Tail(queue)
    /\ last' = [NoLast EXCEPT !.kind = "Wallet"]
    /\ UNCHANGED <<cfg, venueQ, best_bid, best_ask, exchange_ask, exchange_bid,
                   pc, legs, due, calls, unacked, seen, nTickers, nWallets,
                   probe, fetch, fault,
                   monitor, script, sent>>

\* slip: an Order event resets the balances of its venue
OrderResetsWallets(w, msg, exchange) ==
    [w EXCEPT ![exchange] = [t \in TokenNames |-> WalletEmpty(t)]]

\* lines 83-86: neither case of the match statement takes an Order
OrderLeavesWallets(w, msg, exchange) == w

\* no case of the match statement takes an Order: the event is dropped
run_Order ==
    /\ pc = "get"
    /\ queue # <<>>
    /\ Head(queue)[1].type = "Order"
    /\ LET exchange == Head(queue)[2]
       IN  /\ unacked' = [unacked EXCEPT ![exchange] = IF @ > 0 THEN @ - 1 ELSE 0]
           /\ wallets' = OrderLeavesWallets(wallets, Head(queue)[1], exchange)
    /\ queue' = Tail(queue)
    /\ last' = [NoLast EXCEPT !.kind = "Order"]
    /\ UNCHANGED <<cfg, venueQ, best_bid, best_ask, exchange_ask, exchange_bid,
                   pc, legs, due, calls, seen, nTickers, nWallets,
                   probe, fetch, fault,
                   monitor, script, sent>>

run_Ticker ==
    /\ pc = "get"
    /\ queue # <<>>
    /\ Head(queue)[1].type = "Ticker"
    /\ LET msg == Head(queue)[1]
           exchange == Head(queue)[2]
           a == FoldAsk(msg, exchange)
           b == FoldBid(msg, exchange)
           ea == a.exchange
           eb == b.exchange
           e == Evaluate(a.quote, b.quote, ea, eb)
           go == e.stage = "gather"
           copied == e.stage \notin {"same", "raised"}
           ta == IF copied THEN TrackedAfterCopy(a.quote, ea) ELSE a.quote
           tb == IF copied THEN TrackedAfterCopy(b.quote, eb) ELSE b.quote
       IN  /\ best_ask' = ta
           /\ exchange_ask' = ea
           /\ best_bid' = tb
           /\ exchange_bid' = eb
           /\ seen' = [asks |-> seen.asks \cup {msg.ask},
                       bids |-> seen.bids \cup {msg.bid}]
           /\ last' = [kind |-> "Ticker",
                       same |-> e.stage = "same",
                       spread |-> e.stage # "same",
                       raised |-> e.stage = "raised",
                       profitable |-> e.stage \in {"small", "gather"},
                       sized |-> e.stage \in {"small", "gather"},
                       gathered |-> go,
                       amount |-> e.amount,
                       copies |-> IF copied
                                  THEN <<DiagnosticCopy(a.quote, ea),
                                         DiagnosticCopy(b.quote, eb)>>
                                  ELSE <<>>]
           /\ pc' = IF e.stage = "raised" THEN "failed"
                    ELSE IF go THEN AwaitGather ELSE "get"
           /\ legs' = IF go THEN GatherLegs(ea, eb) ELSE legs
           /\ calls' = IF go
                       THEN calls \o GatherCalls(ea, eb, e.amount, ta, tb)
                       ELSE calls
           /\ due' = IF go
                     THEN [v \in Venues |->
                             (due[v]
                              \o (IF v = ea THEN <<Order(e.amount, a.quote.ask, "buy")>>
                                  ELSE <<>>))
                              \o (IF v = eb THEN <<Order(e.amount, b.quote.bid, "sell")>>
                                  ELSE <<>>)]
                     ELSE due
           /\ unacked' = IF go
                         THEN [v \in Venues |->
                                 unacked[v] + (IF v = ea THEN 1 ELSE 0)
                                            + (IF v = eb THEN 1 ELSE 0)]
                         ELSE unacked
    /\ queue' = Tail(queue)
    /\ UNCHANGED <<cfg, venueQ, wallets, nTickers, nWallets, probe, fetch, fault,
                   monitor, script, sent>>

\* ------------------------------------------------------ the submission calls
\* what a submission call hands back: the Exchange interface declares an Order,
\* the Binance and AVNU adapters end without a return statement
LegResults == {"Order", None}

leg_return(l) ==
    /\ Running
    /\ legs[l].state = "started"
    /\ \E r \in LegResults :
         legs' = [legs EXCEPT ![l].state = "returned", ![l].result = r]
    /\ UNCHANGED <<cfg, venueQ, queue, best_bid, best_ask, exchange_ask,
                   exchange_bid, wallets, pc, due, calls, unacked, last, seen,
                   nTickers, nWallets, probe, fetch, fault,
                   monitor, script, sent>>

\* slip: the exception of a call is caught and run goes on with the next event
SwallowLegRaise == "get"

\* nothing in run or main catches the exception gather re-raises
PropagateLegRaise == "failed"

\* a call that raises: gather re-raises its exception in run, which ends
leg_raise(l) ==
    /\ Running
    /\ legs[l].state = "started"
    /\ legs' = [legs EXCEPT ![l].state = "raised"]
    /\ pc' = PropagateLegRaise
    /\ UNCHANGED <<cfg, venueQ, queue, best_bid, best_ask, exchange_ask,
                   exchange_bid, wallets, due, calls, unacked, last, seen,
                   nTickers, nWallets, probe, fetch, fault,
                   monitor, script, sent>>

\* gather hands back both results; lines 139-144 read .amount and .price of each
gather_return ==
    /\ pc = "gather"
    /\ \A l \in Legs : legs[l].state = "returned"
    /\ pc' = IF \A l \in Legs : legs[l].result = "Order" THEN "get" ELSE "failed"
    /\ legs' = IdleLegs
    /\ UNCHANGED <<cfg, venueQ, queue, best_bid, best_ask, exchange_ask,
                   exchange_bid, wallets, due, calls, unacked, last, seen,
                   nTickers, nWallets, probe, fetch, fault,
                   monitor, script, sent>>

Next ==
    \/ \E v \in Venues : VenueTicker(v)
    \/ \E v \in Venues : VenueWallet(v)
    \/ \E v \in Venues : VenueOrder(v)
    \/ \E ex \in Venues : merge_queues(ex)
    \/ run_Wallet
    \/ run_Order
    \/ run_Ticker
    \/ \E l \in Legs : leg_return(l)
    \/ \E l \in Legs : leg_raise(l)
    \/ gather_return

Spec == Init /\ [][Next]_vars

\* the same program configured with a threshold of 0 as well, so that a spread
\* of exactly 0 (best ask = best bid) is at the threshold
ThresholdConfigs ==
    [threshold : {Fraction(n, ThresholdDen) : n \in 0 .. 1},
     trade_amount : {MaxAmount},
     min_trade_amount : {0}]

ThresholdInit ==
    /\ cfg \in ThresholdConfigs
    /\ script = NoScript
    /\ StartOfRun
    /\ probe = NoProbe

ThresholdSpec == ThresholdInit /\ [][Next]_vars

\* ------------------------------------------- the policies applied on their own
PolicyThresholds ==
    {Fraction(n, ThresholdDen) : n \in 0 .. ThresholdDen} \cup {Fraction(2, 100)}

PolicyMinimums == 0 .. MaxAmount

SpreadInputs ==
    [kind : {"spread"}, threshold : PolicyThresholds, ask : PolicyPrices,
     bid : PolicyPrices]

AmountInputs ==
    [kind : {"amount"}, trade_amount : PolicyAmounts, min_amount : PolicyMinimums,
     ask_amount : PolicyAmounts, bid_amount : PolicyAmounts,
     wallet_ask : PolicyAmounts, wallet_bid : PolicyAmounts, ask : PolicyPrices]

PolicyInit ==
    /\ RunInit
    /\ probe \in [fn : {"none"}, in : SpreadInputs \cup AmountInputs, out : {<<>>}]

apply_profitable_trade ==
    /\ probe.fn = "none"
    /\ probe.in.kind = "spread"
    /\ LET i == probe.in
       IN  probe' = [probe EXCEPT
                       !.fn = "profitable_trade",
                       !.out = profitable_trade(i.threshold,
                                                Ticker(NoRaw, 0, 0, i.ask, 0),
                                                Ticker(NoRaw, i.bid, 0, 0, 0))]
    /\ UNCHANGED runVars

\* _calculate_spread followed by the comparison of line 111
apply_calculate_spread ==
    /\ probe.fn = "none"
    /\ probe.in.kind = "spread"
    /\ LET i == probe.in
       IN  probe' = [probe EXCEPT
                       !.fn = "calculate_spread",
                       !.out = IF DivisionRaises(i.bid)
                               THEN [raised |-> TRUE, profitable |-> FALSE,
                                     spread |-> Fraction(0, 1)]
                               ELSE [raised |-> FALSE,
                                     profitable |->
                                       SpreadAboveThreshold(
                                         calculate_spread(i.ask, i.bid), i.threshold),
                                     spread |-> calculate_spread(i.ask, i.bid)]]
    /\ UNCHANGED runVars

apply_calculate_amount ==
    /\ probe.fn = "none"
    /\ probe.in.kind = "amount"
    /\ LET i == probe.in
           a == Ticker(NoRaw, 0, 0, i.ask, i.ask_amount)
           b == Ticker(NoRaw, 0, i.bid_amount, 0, 0)
       IN  probe' = [probe EXCEPT
                       !.fn = "calculate_amount",
                       !.out = [arbitrage |->
                                  calculate_amount(i.trade_amount, a, b,
                                                   i.wallet_ask, i.wallet_bid),
                                strategy |->
                                  StrategyAmount(i.trade_amount, i.min_amount, a, b,
                                                 Wallet(QuoteName, i.wallet_ask),
                                                 Wallet(BaseName, i.wallet_bid))]]
    /\ UNCHANGED runVars

PolicyNext ==
    \/ apply_profitable_trade
    \/ apply_calculate_spread
    \/ apply_calculate_amount

PolicySpec == PolicyInit /\ [][PolicyNext]_vars

\* ------------------------------------------- the loop fed by scripted venues
\* threshold 0.02, trade amount 50, minimum 1
ScenarioConfig ==
    [threshold |-> Fraction(2, 100), trade_amount |-> 50, min_trade_amount |-> 1]

\* the ticker of the venue to buy on (ask 100 for 50) and of the venue to sell
\* on (bid 106 for 50)
ScenarioTicker(v, buyer) ==
    IF v = buyer THEN Ticker(<<v, 1>>, 99, 50, 100, 50)
    ELSE Ticker(<<v, 1>>, 106, 50, 107, 50)

\* the balances a venue reports: either only the token its leg spends (quote
\* on the venue to buy on, base on the venue to sell on) or both tokens
ScenarioFunding(v, buyer) ==
    { {Wallet(IF v = buyer THEN QuoteName ELSE BaseName,
              IF v = buyer THEN 5000 ELSE 50)},
      {Wallet(BaseName, 50), Wallet(QuoteName, 5000)} }

\* every order in which the elements of S can follow each other
Orderings(S) ==
    {f \in [1 .. Cardinality(S) -> S] : \A i, j \in DOMAIN f : f[i] = f[j] => i = j}

ScenarioScripts ==
    UNION { { [v \in Venues |-> IF v = buyer THEN sb ELSE ss] :
                sb \in UNION {Orderings(w \cup {ScenarioTicker(buyer, buyer)}) :
                                w \in ScenarioFunding(buyer, buyer)},
                ss \in UNION {Orderings(w \cup {ScenarioTicker(seller, buyer)}) :
                                w \in ScenarioFunding(seller, buyer)} } :
            <<buyer, seller>> \in {<<exchanges[1], exchanges[2]>>,
                                   <<exchanges[2], exchanges[1]>>} }

ScenarioInit ==
    /\ cfg = ScenarioConfig
    /\ script \in ScenarioScripts
    /\ StartOfRun
    /\ probe = NoProbe

ScenarioNext ==
    \/ \E v \in Venues : VenueReport(v)
    \/ \E v \in Venues : VenueOrder(v)
    \/ \E ex \in Venues : merge_queues(ex)
    \/ run_Wallet
    \/ run_Order
    \/ run_Ticker
    \/ \E l \in Legs : leg_return(l)
    \/ \E l \in Legs : leg_raise(l)
    \/ gather_return

ScenarioSpec == ScenarioInit /\ [][ScenarioNext]_vars

\* the event loop schedules every forwarding task that has an event to take
ScenarioFairSpec ==
    ScenarioSpec /\ \A ex \in Venues : WF_vars(merge_queues(ex))

\* ------------------------------------- the AVNU adapter, statement by statement
AVNU == exchanges[2]

\* the call record of leg l of the pair that is being gathered
CallOf(l) == IF l = "buy" THEN calls[Len(calls) - 1] ELSE calls[Len(calls)]

\* slip: the side tag is not passed on, every Order is tagged as a buy
wait_txn_order_always_buy(call, side) == Order(call.amount, call.ticker.ask, "buy")

\* _wait_txn, lines 144-151: Order(raw, symbol, amount, ticker.ask, side)
wait_txn_order(call, side) == Order(call.amount, call.ticker.ask, side)

\* _wait_txn from the moment wait_for_tx comes back: the Order is put on the
\* receiver queue, then the balance fetch is spawned as a task
avnu_wait_txn(l) ==
    /\ Running
    /\ legs[l].state = "started"
    /\ legs[l].venue = AVNU
    /\ venueQ' = [venueQ EXCEPT ![AVNU] = Append(@, wait_txn_order(CallOf(l), l))]
    /\ fetch' = Append(fetch, <<BaseName, QuoteName>>)
    /\ legs' = [legs EXCEPT ![l].state = "ordered"]
    /\ due' = [due EXCEPT ![AVNU] = Tail(@)]
    /\ UNCHANGED <<cfg, queue, best_bid, best_ask, exchange_ask, exchange_bid,
                   wallets, pc, calls, unacked, last, seen, nTickers, nWallets,
                   probe, fault, monitor, script, sent>>

\* buy_market_order / sell_market_order end without a return statement
avnu_return(l) ==
    /\ Running
    /\ legs[l].state = "ordered"
    /\ legs' = [legs EXCEPT ![l].state = "returned", ![l].result = None]
    /\ UNCHANGED <<cfg, venueQ, queue, best_bid, best_ask, exchange_ask,
                   exchange_bid, wallets, pc, due, calls, unacked, last, seen,
                   nTickers, nWallets, probe, fetch, fault, monitor, script, sent>>

\* the sequence q without its i-th element
Without(q, i) == SubSeq(q, 1, i - 1) \o SubSeq(q, i + 1, Len(q))

\* one turn of the loop of _fetch_balance: the balance of the next token is
\* read and put on the receiver queue
avnu_fetch_balance(i) ==
    /\ Running
    /\ i \in DOMAIN fetch
    /\ \E amount \in WalletAmounts :
         venueQ' = [venueQ EXCEPT ![AVNU] = Append(@, Wallet(Head(fetch[i]), amount))]
    /\ fetch' = IF Len(fetch[i]) = 1 THEN Without(fetch, i)
                ELSE [fetch EXCEPT ![i] = Tail(@)]
    /\ UNCHANGED <<cfg, queue, best_bid, best_ask, exchange_ask, exchange_bid,
                   wallets, pc, legs, due, calls, unacked, last, seen, nTickers,
                   nWallets, probe, fault, monitor, script, sent>>

\* ---------------------------------------------- the event-loop exception handler
\* what the event loop hands to the handler: the context of a task that ended
\* with an exception nobody awaited carries the exception, other reports of
\* the loop carry only a message
Contexts == [exception : BOOLEAN]

\* slip: the context is handed to the default handler and nothing else is done
handler_only_logs(context) ==
    [handled |-> TRUE, logged |-> TRUE, exception |-> context.exception,
     stop |-> FALSE]

\* custom_exception_handler: default handler first, then loop.stop() when the
\* context carries an exception
custom_exception_handler(context) ==
    [handled |-> TRUE, logged |-> TRUE, exception |-> context.exception,
     stop |-> context.exception]

call_exception_handler ==
    /\ Running
    /\ ~fault.handled
    /\ \E context \in Contexts :
         /\ fault' = custom_exception_handler(context)
         /\ pc' = IF fault'.stop THEN "stopped" ELSE pc
    /\ UNCHANGED <<cfg, venueQ, queue, best_bid, best_ask, exchange_ask,
                   exchange_bid, wallets, legs, due, calls, unacked, last, seen,
                   nTickers, nWallets, probe, fetch, monitor, script, sent>>

\* the minimum set to the amount the scenario trades
BoundaryConfig == [ScenarioConfig EXCEPT !.min_trade_amount = 50]

\* each venue reports both balances, then its ticker
AdapterScripts ==
    { [v \in Venues |-> <<Wallet(BaseName, 50), Wallet(QuoteName, 5000),
                          ScenarioTicker(v, buyer)>>] : buyer \in Venues }

AdapterInit ==
    /\ cfg \in {ScenarioConfig, BoundaryConfig}
    /\ script \in AdapterScripts
    /\ StartOfRun
    /\ probe = NoProbe

\* the call on AVNU is followed statement by statement, the call on the other
\* venue as before; with AVNU handing back None run never gets to an Order event
AdapterNext ==
    \/ \E v \in Venues : VenueReport(v)
    \/ \E v \in Venues \ {AVNU} : VenueOrder(v)
    \/ \E ex \in Venues : merge_queues(ex)
    \/ run_Wallet
    \/ run_Ticker
    \/ \E l \in Legs : legs[l].venue # AVNU /\ leg_return(l)
    \/ \E l \in Legs : leg_raise(l)
    \/ \E l \in Legs : avnu_wait_txn(l)
    \/ \E l \in Legs : avnu_return(l)
    \/ \E i \in DOMAIN fetch : avnu_fetch_balance(i)
    \/ gather_return
    \/ call_exception_handler

AdapterSpec == AdapterInit /\ [][AdapterNext]_vars

\* ------------------------------------------------------- SpreadMonitor.run
\* the sources whose prices the monitor is sent, and what a ticker carries:
\* the last price, the bid and the ask
MonitorVenues == {"s1", "s2", "s3"}

MonitorQuotes ==
    { [last_price |-> 1, bid |-> 1, ask |-> 2],
      [last_price |-> 2, bid |-> 1, ask |-> 2],
      [last_price |-> 2, bid |-> 2, ask |-> 2] }

Abs(x) == IF x < 0 THEN 0 - x ELSE x

\* lines 50-61: last_prices[ex_name] = {...}
UpdatedPrices(last_prices, ex_name, entry) ==
    [x \in DOMAIN last_prices \cup {ex_name} |->
       IF x = ex_name THEN entry ELSE last_prices[x]]

\* slip: the updating source is not taken out of the sources to pair with
AllKnownExchanges(last_prices, ex_name) == DOMAIN last_prices

\* line 71
OtherExchanges(last_prices, ex_name) == DOMAIN last_prices \ {ex_name}

\* lines 76-118: the row for the updating source and one other source (the
\* time stamp is left out)
SpreadRow(last_prices, ex_name, other_ex) ==
    LET ex1_entry == last_prices[ex_name]
        ex2_entry == last_prices[other_ex]
        spread_prices == Abs(ex1_entry.last_price - ex2_entry.last_price)
        spread_ex1 == ex1_entry.ask - ex2_entry.bid
        spread_ex2 == ex2_entry.ask - ex1_entry.bid
    IN  [ex1 |-> ex_name, ex2 |-> other_ex,
         spread_prices |-> spread_prices,
         spread_perc |-> Fraction(spread_prices, ex1_entry.last_price),
         spread_ex1 |-> spread_ex1,
         spread_ex1_perc |-> Fraction(spread_ex1, ex1_entry.ask),
         spread_ex2 |-> spread_ex2,
         spread_ex2_perc |-> Fraction(spread_ex2, ex2_entry.ask),
         ex1_entry |-> ex1_entry, ex2_entry |-> ex2_entry]

\* one turn of the loop: a ticker is taken, the prices of its source are
\* stored, a row per other source is built (a set is walked in no fixed
\* order) and the rows are written
monitor_run ==
    /\ monitor.taken < MaxMonitorTickers
    /\ \E ex_name \in MonitorVenues, entry \in MonitorQuotes :
         LET last_prices == UpdatedPrices(monitor.last_prices, ex_name, entry)
             rows == {SpreadRow(last_prices, ex_name, other_ex) :
                        other_ex \in OtherExchanges(last_prices, ex_name)}
         IN  \E data \in Orderings(rows) :
               monitor' = [last_prices |-> last_prices,
                           db |-> monitor.db \o data,
                           taken |-> monitor.taken + 1]
    /\ UNCHANGED <<cfg, venueQ, queue, best_bid, best_ask, exchange_ask,
                   exchange_bid, wallets, pc, legs, due, calls, unacked, last,
                   seen, nTickers, nWallets, probe, fetch, fault, script, sent>>

MonitorNext == monitor_run

MonitorSpec == Init /\ [][MonitorNext]_vars

\* ------------------------------------------------------------------ claims
PairCount == Len(calls) \div 2
BuyOf(k) == calls[2 * k - 1]
SellOf(k) == calls[2 * k]
LegInFlight == \E l \in Legs : legs[l].state \in {"started", "ordered"}

\* C1: once a pair of legs has been issued, no second pair is issued until an
\* Order event of each of its two venues has been consumed from the merged
\* stream: a step that issues calls starts with no venue owing an Order event.
C1_NoPairWhileOrdersOutstanding ==
    [][calls' # calls => \A v \in Venues : unacked[v] = 0]_vars

\* C2: a pair of triggering quotes (best-ask quote, best-bid quote) triggers at
\* most one pair of legs: no two issued pairs carry the same two quotes.
C2_OncePerOpportunity ==
    \A i, j \in 1 .. PairCount :
        i # j => ~(/\ BuyOf(i).ticker = BuyOf(j).ticker
                   /\ SellOf(i).ticker = SellOf(j).ticker)

\* C3: from the issue of a pair until both submission calls have returned run
\* makes no other buy or sell call (with no timeout: for as long as a call is
\* in flight), and a forwarding task with an event on its venue's queue can
\* still move it into the merged queue.
C3_SubmissionBarrier ==
    /\ [][LegInFlight => calls' = calls]_vars
    /\ [](LegInFlight /\ Running =>
            \A v \in Venues : venueQ[v] # <<>> => ENABLED merge_queues(v))

C3_Witness ==
    /\ pc = "gather"
    /\ legs["buy"].state = "returned"
    /\ legs["sell"].state = "started"
    /\ \E i \in DOMAIN queue : queue[i][1].type = "Ticker"

\* C4: a step that issues calls issues exactly two: one buy_market_order on the
\* venue holding the best ask with the best-ask quote, then one
\* sell_market_order on the venue holding the best bid with the best-bid quote,
\* both for the same amount.
C4_PairShape ==
    [][calls' # calls =>
         LET n == Len(calls')
         IN  /\ n = Len(calls) + 2
             /\ SubSeq(calls', 1, Len(calls)) = calls
             /\ calls'[n - 1] =
                  [op |-> "buy_market_order", exchange |-> exchange_ask',
                   amount |-> calls'[n].amount, ticker |-> best_ask']
             /\ calls'[n] =
                  [op |-> "sell_market_order", exchange |-> exchange_bid',
                   amount |-> calls'[n - 1].amount, ticker |-> best_bid']]_vars

C4_Witness ==
    /\ PairCount = 1
    /\ BuyOf(1).exchange = "avnu"
    /\ SellOf(1).exchange = "binance"
    /\ BuyOf(1).ticker.ask = 1
    /\ SellOf(1).ticker.bid = 2
    /\ BuyOf(1).amount = 1

\* C5: both submission calls are started before either has completed: a leg is
\* never finished, and run is never waiting at the barrier, while the other leg
\* has not been started.
C5_LegsConcurrent ==
    \A l \in Legs, m \in Legs :
        (pc = "gather" \/ legs[l].state \in {"returned", "raised"})
            => legs[m].state # "idle"

C5_Witness ==
    /\ pc = "gather"
    /\ legs["sell"].state = "returned"
    /\ legs["buy"].state = "started"

\* C6: when, after a ticker has been folded in, one venue holds both the best
\* ask and the best bid, that event gets no spread evaluation, no amount
\* calculation and no order call; every issued pair buys and sells on
\* different venues.
C6_SelfArbitrageExcluded ==
    /\ (last.kind = "Ticker" /\ exchange_ask = exchange_bid) =>
           (~last.spread /\ ~last.sized /\ ~last.gathered /\ ~last.raised)
    /\ \A k \in 1 .. PairCount : BuyOf(k).exchange # SellOf(k).exchange

C6_Witness ==
    /\ last.kind = "Ticker"
    /\ exchange_ask = exchange_bid
    /\ best_bid.bid > best_ask.ask
    /\ Cardinality(seen.asks) > 1
    /\ wallets[exchange_ask][BaseName].amount > 0
    /\ wallets[exchange_bid][QuoteName].amount > 0

\* C7: after each ticker the tracked best ask is the minimum ask, and the
\* tracked best bid the maximum bid, over all tickers processed so far.
C7_RunningExtrema ==
    seen.asks # {} =>
        /\ best_ask.ask = Min(seen.asks)
        /\ best_bid.bid = Max(seen.bids)

C7_Witness ==
    /\ Cardinality(seen.asks) > 1
    /\ Cardinality(seen.bids) > 2
    /\ exchange_ask # exchange_bid

\* C8: for bid > 0 the spread is (bid - ask) / bid and the opportunity is
\* profitable exactly when that spread is >= the threshold.
C8_SpreadPolicy ==
    (probe.fn \in {"profitable_trade", "calculate_spread"} /\ probe.in.bid > 0) =>
        /\ ~probe.out.raised
        /\ probe.out.spread.den # 0
        /\ probe.out.spread.num * probe.in.bid
             = (probe.in.bid - probe.in.ask) * probe.out.spread.den
        /\ probe.out.profitable <=>
             ((probe.in.bid - probe.in.ask) * probe.in.threshold.den
                >= probe.in.threshold.num * probe.in.bid)

C8_Witness ==
    /\ probe.fn = "profitable_trade"
    /\ probe.in = [kind |-> "spread", threshold |-> Fraction(2, 100),
                   ask |-> 100, bid |-> 105]
    /\ probe.out.spread = Fraction(5, 105)
    /\ probe.out.profitable

\* C9: when the best bid is zero or negative the spread evaluation reports
\* "not profitable" and raises nothing: no order is issued and run goes on.
C9_NonPositiveBidGuard ==
    (last.spread /\ best_bid.bid <= 0) =>
        (~last.raised /\ ~last.profitable /\ ~last.gathered /\ Running)

\* C10: the computed amount is min(trade cap, ask amount, bid amount, bid-side
\* wallet, ask-side wallet * ask price); SimpleAmountStrategy hands back that
\* amount, or None when it is below its minimum.
C10_AmountCaps ==
    probe.fn = "calculate_amount" =>
        LET i == probe.in
            caps == {i.trade_amount, i.ask_amount, i.bid_amount, i.wallet_bid,
                     i.wallet_ask * i.ask}
            a == probe.out.arbitrage
        IN  /\ a \in caps
            /\ \A c \in caps : a <= c
            /\ probe.out.strategy =
                 IF a < i.min_amount THEN [none |-> TRUE, amount |-> 0]
                 ELSE [none |-> FALSE, amount |-> a]

C10_Witness ==
    /\ probe.fn = "calculate_amount"
    /\ probe.in.trade_amount = 10
    /\ probe.in.ask_amount = 8
    /\ probe.in.bid_amount = 20
    /\ probe.in.wallet_bid = 5
    /\ probe.in.wallet_ask = 1
    /\ probe.in.ask = 100
    /\ probe.out.arbitrage = 5
    /\ probe.out.strategy = [none |-> FALSE, amount |-> 5]

\* C11: a pair that is issued is sized within the balances its own legs spend:
\* its amount is at most the base-token balance stored for the venue it sells
\* on, and at most the quote-token balance stored for the venue it buys on
\* multiplied by the ask price.
C11_CapsReadLegWallets ==
    [][calls' # calls =>
         LET amount == calls'[Len(calls')].amount
         IN  /\ amount <= wallets[exchange_bid'][BaseName].amount
             /\ amount <= wallets[exchange_ask'][QuoteName].amount * best_ask'.ask]_vars

\* C12: whenever the amount computed for an event is strictly below the
\* configured minimum, SimpleAmountStrategy hands back None for the same
\* inputs, no buy or sell call is made for that event, and run is back at the
\* head of its loop, ready for the next event.
C12_MinimumGating ==
    (last.sized /\ last.amount < cfg.min_trade_amount) =>
        /\ StrategyAmount(cfg.trade_amount, cfg.min_trade_amount, best_ask,
                          best_bid, wallets[exchange_ask][BaseName],
                          wallets[exchange_bid][QuoteName]).none
        /\ ~last.gathered
        /\ pc = "get"

C12_Witness ==
    /\ last.sized
    /\ last.amount < cfg.min_trade_amount
    /\ cfg.min_trade_amount = 1
    /\ calls = <<>>
    /\ queue # <<>>

\* run takes the event at the head of the merged queue
TakesWallet ==
    /\ pc = "get"
    /\ queue # <<>>
    /\ Head(queue)[1].type = "Wallet"
    /\ queue' = Tail(queue)

TakesTicker ==
    /\ pc = "get"
    /\ queue # <<>>
    /\ Head(queue)[1].type = "Ticker"
    /\ queue' = Tail(queue)

\* C13: taking a Wallet event of venue X for token A makes the stored wallet of
\* (X, A) equal to the snapshot and changes no other stored wallet, nor the
\* best ask, the best bid or their venues.
C13_WalletOverwrite ==
    [][TakesWallet =>
         LET msg == Head(queue)[1]
             ex == Head(queue)[2]
         IN  /\ wallets'[ex][msg.token] = msg
             /\ \A v \in Venues, t \in TokenNames :
                  (v # ex \/ t # msg.token) => wallets'[v][t] = wallets[v][t]
             /\ UNCHANGED <<best_ask, best_bid, exchange_ask, exchange_bid>>]_vars

\* two snapshots have been taken and both were for the same (venue, token)
C13_Witness ==
    /\ nWallets = 2
    /\ InFlight = 0
    /\ last.kind = "Wallet"
    /\ Cardinality({<<v, t>> \in Venues \X TokenNames : wallets[v][t].amount > 0}) = 1

\* C14: run is ready to evaluate the next ticker (idle) only when no venue of
\* an issued pair still owes an Order event: after a pair it gets back to that
\* position only once the Order events of both venues have been consumed.
C14_IdleOnlyAfterFills ==
    pc = "get" => \A v \in Venues : unacked[v] = 0

\* C15: a ticker that run takes after the calls of a pair were started, while
\* a venue of that pair still owes its Order event, gets no evaluation.
C15_SuppressedOnceSubmitted ==
    [][(TakesTicker /\ \E v \in Venues : unacked[v] > 0) =>
         (last'.kind = "Ticker" /\ ~last'.spread /\ ~last'.sized)]_vars

\* C16: a ticker taken while a leg is outstanding is folded into the best ask
\* and the best bid and triggers no pair.
C16_TrackedNotTradedWhilePending ==
    [][(TakesTicker /\ \E v \in Venues : unacked[v] > 0) =>
         LET msg == Head(queue)[1]
         IN  /\ best_ask'.ask = Min({best_ask.ask, msg.ask})
             /\ best_bid'.bid = Max({best_bid.bid, msg.bid})
             /\ calls' = calls]_vars

\* C17: once a submission call has raised, run has ended with the error: no
\* call is added (no retry, no compensating trade, no later order) and no
\* event is taken or stored any more.
C17_LegFailureFatal ==
    /\ []((\E l \in Legs : legs[l].state = "raised") => pc = "failed")
    /\ [][(\E l \in Legs : legs[l].state = "raised") =>
            UNCHANGED <<calls, queue, wallets, best_ask, best_bid>>]_vars

C17_Witness ==
    /\ legs["sell"].state = "raised"
    /\ legs["buy"].state = "returned"
    /\ pc = "failed"
    /\ queue # <<>>
    /\ PairCount = 1

\* the scripted events of venue v that run has not taken yet, oldest first:
\* those on the merged queue under the tag v, then those on the venue's queue
IsReport(e) == e.type # "Order"
IsReportOf(p, v) == p[2] = v /\ IsReport(p[1])
Merged(v) ==
    LET s == SelectSeq(queue, LAMBDA p : IsReportOf(p, v))
    IN  [i \in DOMAIN s |-> s[i][1]]
Waiting(v) == SelectSeq(venueQ[v], IsReport)
Forwarded(v) == sent[v] - Len(Waiting(v))

\* C18: for every venue, the events of its script that are on the merged queue
\* under its tag, followed by those still on its own queue, are exactly the
\* last events it reported, in the order it reported them; every ticker on
\* the merged queue is tagged with the venue it came from.
C18_MultiplexerOrder ==
    /\ \A v \in Venues :
         LET s == Merged(v) \o Waiting(v)
         IN  /\ Len(s) <= sent[v]
             /\ s = SubSeq(script[v], sent[v] - Len(s) + 1, sent[v])
    /\ \A i \in DOMAIN queue :
         queue[i][1].type = "Ticker" => queue[i][1].raw[1] = queue[i][2]

\* events of the two venues interleaved on the merged queue
C18_Witness ==
    /\ Len(queue) >= 4
    /\ queue[1][2] = queue[3][2]
    /\ queue[2][2] = queue[4][2]
    /\ queue[1][2] # queue[2][2]
    /\ queue[3][1].type = "Ticker"

\* C19: a forwarding step takes exactly the oldest event of one venue's queue
\* and appends it, once, to the merged queue; and, the forwarding tasks being
\* scheduled fairly, every event a venue has reported leaves the venue's queue
\* for the merged queue for as long as the process lives, also when run never
\* comes back from its submission calls.
C19_NeverDropsOrDuplicates ==
    /\ [][\A v \in Venues :
            (venueQ'[v] # venueQ[v] /\ Len(venueQ'[v]) <= Len(venueQ[v])) =>
                /\ venueQ'[v] = Tail(venueQ[v])
                /\ queue' = Append(queue, <<Head(venueQ[v]), v>>)]_vars
    \* a script holds at most three events: two balances and a ticker
    /\ \A v \in Venues : \A k \in 1 .. 3 :
         (sent[v] >= k) ~> (Forwarded(v) >= k \/ ~Running)

\* both calls are in flight and everything reported meanwhile has been merged
C19_Witness ==
    /\ pc = "gather"
    /\ \A l \in Legs : legs[l].state = "started"
    /\ Len(queue) >= 2
    /\ \A v \in Venues : sent[v] = Len(script[v]) /\ Forwarded(v) = sent[v]

Buyer ==
    CHOOSE v \in Venues :
        \E i \in DOMAIN script[v] : script[v][i] = ScenarioTicker(v, v)
Seller == CHOOSE v \in Venues : v # Buyer

\* C20: in the end-to-end scenario, when run takes the later of the two tickers
\* with sufficient balances stored (the venue to buy on holds the quote for 50
\* at 100, the venue to sell on holds 50 base), it issues exactly
\* buy(V1, 50) and sell(V2, 50).
C20_EndToEnd ==
    [][(/\ TakesTicker
        /\ seen'.asks = {100, 107}
        /\ wallets[Buyer][QuoteName].amount * 100 >= 50
        /\ wallets[Seller][BaseName].amount >= 50) =>
          calls' = << [op |-> "buy_market_order", exchange |-> Buyer,
                       amount |-> 50, ticker |-> ScenarioTicker(Buyer, Buyer)],
                      [op |-> "sell_market_order", exchange |-> Seller,
                       amount |-> 50, ticker |-> ScenarioTicker(Seller, Buyer)] >>]_vars

NewRows == SubSeq(monitor'.db, Len(monitor.db) + 1, Len(monitor'.db))
KnownBefore == DOMAIN monitor.last_prices
KnownAfter == DOMAIN monitor'.last_prices

\* C22 as stated: every update writes one row for every pair of sources whose
\* prices are known.
C22_RowForEveryKnownPair ==
    [][monitor' # monitor =>
         LET n == Cardinality(KnownAfter)
         IN  Len(NewRows) = (n * (n - 1)) \div 2]_vars

\* C22: every update stores the prices of the updating source, leaves the
\* stored prices of the others as they were, and appends exactly one row for
\* every other source whose prices are known, pairing the updating source with
\* it and computed from the prices stored for the two; no row pairs a source
\* with itself and the first ticker appends nothing.
C22_MonitorRows ==
    [][monitor' # monitor =>
         \E ex \in MonitorVenues :
           LET lp == monitor'.last_prices
           IN  /\ KnownAfter = KnownBefore \cup {ex}
               /\ \A o \in KnownBefore \ {ex} : lp[o] = monitor.last_prices[o]
               /\ SubSeq(monitor'.db, 1, Len(monitor.db)) = monitor.db
               /\ Len(NewRows) = Cardinality(KnownAfter \ {ex})
               /\ {NewRows[i].ex2 : i \in DOMAIN NewRows} = KnownAfter \ {ex}
               /\ KnownBefore = {} => NewRows = <<>>
               /\ \A i \in DOMAIN NewRows :
                    LET r == NewRows[i]
                    IN  /\ r.ex1 = ex
                        /\ r.ex2 # r.ex1
                        /\ r.ex1_entry = lp[ex]
                        /\ r.ex2_entry = lp[r.ex2]
                        /\ r.spread_prices
                             = Abs(lp[ex].last_price - lp[r.ex2].last_price)
                        /\ r.spread_ex1 = lp[ex].ask - lp[r.ex2].bid
                        /\ r.spread_ex2 = lp[r.ex2].ask - lp[ex].bid]_vars

\* three sources are known and the last update wrote two rows
C22_Witness ==
    /\ Cardinality(DOMAIN monitor.last_prices) = 3
    /\ monitor.taken = 3
    /\ Len(monitor.db) = 3
    /\ monitor.db[2].ex1 = monitor.db[3].ex1
    /\ monitor.db[2].ex2 # monitor.db[3].ex2

\* C23: when both submission calls of a pair have come back, each has handed
\* back an Order and run goes on to take the next event.
C23_LoopSurvivesPair ==
    [][((\A l \in Legs : legs[l].state = "returned") /\ legs' # legs) =>
         /\ \A l \in Legs : legs[l].result = "Order"
         /\ pc' = "get"]_vars

TakesOrder ==
    /\ pc = "get"
    /\ queue # <<>>
    /\ Head(queue)[1].type = "Order"
    /\ queue' = Tail(queue)

\* C24: a ticker whose ask equals the best ask replaces the best-ask quote and
\* its venue, and one whose ask is higher leaves both as they were, whatever
\* venue it comes from; likewise for an equal bid and for a lower bid.
C24_TieLastWriteWins ==
    [][TakesTicker =>
         LET msg == Head(queue)[1]
             ex == Head(queue)[2]
         IN  /\ msg.ask = best_ask.ask => (best_ask' = msg /\ exchange_ask' = ex)
             /\ msg.ask > best_ask.ask => UNCHANGED <<best_ask, exchange_ask>>
             /\ msg.bid = best_bid.bid => (best_bid' = msg /\ exchange_bid' = ex)
             /\ msg.bid < best_bid.bid => UNCHANGED <<best_bid, exchange_bid>>]_vars

\* the third ticker tied with the best bid and took it over from the other
\* venue, while its higher ask left the best ask of its own venue in place
C24_Witness ==
    /\ last.kind = "Ticker"
    /\ Cardinality(seen.bids) = 1
    /\ Cardinality(seen.asks) = 2
    /\ best_bid.raw[2] = 3
    /\ best_ask.raw[2] = 1
    /\ best_ask.raw[1] = best_bid.raw[1]

\* C25: an amount equal to the configured minimum is traded: when the amount
\* computed for an event equals the minimum, SimpleAmountStrategy hands that
\* amount back and run issues the pair.
C25_MinimumIsTraded ==
    (last.sized /\ last.amount = cfg.min_trade_amount) =>
        /\ ~StrategyAmount(cfg.trade_amount, cfg.min_trade_amount, best_ask,
                           best_bid, wallets[exchange_ask][BaseName],
                           wallets[exchange_bid][QuoteName]).none
        /\ last.gathered

OrdersOn(q) == Len(SelectSeq(q, LAMBDA e : e.type = "Order"))
AvnuLegOrdered(l) ==
    /\ legs[l].venue = AVNU
    /\ legs[l].state = "started"
    /\ legs'[l].state = "ordered"

\* C26: an Order appears on AVNU's queue only as the one Order of a call in
\* flight on AVNU, with the amount of the call and its side as tag; the call
\* comes back only after its Order is on the queue; a balance fetch is started
\* only in the step that has put the Order, for the base and the quote token;
\* and every balance the fetch reads is appended to the same queue, behind
\* the Order.
C26_AvnuFillOrdering ==
    /\ [][(OrdersOn(venueQ'[AVNU]) > OrdersOn(venueQ[AVNU])
             \/ Len(fetch') > Len(fetch)) =>
            \E l \in Legs :
              /\ AvnuLegOrdered(l)
              /\ Len(venueQ'[AVNU]) = Len(venueQ[AVNU]) + 1
              /\ SubSeq(venueQ'[AVNU], 1, Len(venueQ[AVNU])) = venueQ[AVNU]
              /\ LET o == venueQ'[AVNU][Len(venueQ'[AVNU])]
                 IN  /\ o.type = "Order"
                     /\ o.amount = CallOf(l).amount
                     /\ o.order = l
              /\ fetch' = Append(fetch, <<BaseName, QuoteName>>)]_vars
    /\ [][\A l \in Legs :
            (legs[l].venue = AVNU /\ legs[l].state # "returned"
               /\ legs'[l].state = "returned") => legs[l].state = "ordered"]_vars
    /\ [][(fetch' # fetch /\ Len(fetch') <= Len(fetch)) =>
            /\ Len(venueQ'[AVNU]) = Len(venueQ[AVNU]) + 1
            /\ SubSeq(venueQ'[AVNU], 1, Len(venueQ[AVNU])) = venueQ[AVNU]
            /\ venueQ'[AVNU][Len(venueQ'[AVNU])].type = "Wallet"]_vars

\* the sell on AVNU has come back; its Order and the two balances fetched
\* after it wait on AVNU's queue in that order
C26_Witness ==
    /\ legs["sell"].venue = AVNU
    /\ legs["sell"].state = "returned"
    /\ Len(venueQ[AVNU]) = 3
    /\ venueQ[AVNU][1].type = "Order"
    /\ venueQ[AVNU][1].order = "sell"
    /\ venueQ[AVNU][1].amount = 50
    /\ venueQ[AVNU][2] \in {Wallet(BaseName, a) : a \in WalletAmounts}
    /\ venueQ[AVNU][3] \in {Wallet(QuoteName, a) : a \in WalletAmounts}
    /\ fetch = <<>>

\* C27: taking a Wallet event or an Order event evaluates no spread, sizes
\* nothing, makes no buy or sell call and leaves run at the head of its loop;
\* an Order event also leaves the best ask, the best bid, their venues and all
\* stored wallets as they were; calls are made only in a step that takes a
\* Ticker.
C27_OnlyTickersTrigger ==
    /\ [][(TakesWallet \/ TakesOrder) =>
            /\ calls' = calls
            /\ ~last'.spread
            /\ ~last'.sized
            /\ UNCHANGED <<pc, legs>>]_vars
    /\ [][TakesOrder =>
            UNCHANGED <<best_ask, best_bid, exchange_ask, exchange_bid, wallets>>]_vars
    /\ [][calls' # calls => TakesTicker]_vars

\* an Order event has been taken while the quotes and balances that made the
\* pair are still stored
C27_Witness ==
    /\ last.kind = "Order"
    /\ PairCount = 1
    /\ exchange_ask # exchange_bid
    /\ wallets[exchange_ask][BaseName].amount > 0
    /\ wallets[exchange_bid][QuoteName].amount > 0

\* C28: once a ticker has been taken, the venue recorded for the best ask is
\* the venue the stored best-ask quote came from, and the venue recorded for
\* the best bid is the venue the stored best-bid quote came from.
C28_QuoteAndVenueTogether ==
    seen.asks # {} =>
        /\ best_ask.raw # NoRaw
        /\ best_bid.raw # NoRaw
        /\ best_ask.raw[1] = exchange_ask
        /\ best_bid.raw[1] = exchange_bid

C28_Witness ==
    /\ nTickers = 3
    /\ best_bid.raw = <<exchanges[2], 3>>
    /\ best_ask.raw = <<exchanges[1], 2>>
    /\ InFlight = 0

\* C29: the first ticker taken becomes both the best ask and the best bid of
\* its venue and is not evaluated; once a ticker has been taken neither best
\* quote is a sentinel; a
\* spread is computed only between two quotes that came from tickers; and
\* every pair issued buys on a quote of one venue and sells on a quote of
\* another.
C29_NoTradeOnSentinels ==
    /\ [][(TakesTicker /\ seen.asks = {}) =>
            /\ best_ask' = Head(queue)[1]
            /\ best_bid' = Head(queue)[1]
            /\ exchange_ask' = Head(queue)[2]
            /\ exchange_bid' = Head(queue)[2]
            /\ ~last'.spread
            /\ calls' = calls]_vars
    /\ [](/\ seen.asks # {} =>
               /\ best_ask.raw # NoRaw /\ best_ask.ask < Infinity
               /\ best_bid.raw # NoRaw /\ best_bid.bid > NegInfinity
          /\ last.spread => (best_ask.raw # NoRaw /\ best_bid.raw # NoRaw)
          /\ \A k \in 1 .. PairCount :
               /\ BuyOf(k).ticker.raw # NoRaw
               /\ SellOf(k).ticker.raw # NoRaw
               /\ BuyOf(k).ticker.raw[1] # SellOf(k).ticker.raw[1])

\* the first ticker taken holds both best quotes and nothing was evaluated
C29_Witness ==
    /\ last.kind = "Ticker"
    /\ last.same
    /\ best_ask = best_bid
    /\ best_ask.raw = <<exchanges[2], 1>>
    /\ calls = <<>>

\* C30: every (venue, token) wallet is stored from the start, and a pair is
\* issued only when the two balances read for sizing (the base balance of the
\* venue of the best ask, the quote balance of the venue of the best bid) are
\* both above 0.
C30_NoTradeOnEmptyWallets ==
    /\ [](/\ DOMAIN wallets = Venues
          /\ \A v \in Venues :
               /\ DOMAIN wallets[v] = TokenNames
               /\ \A t \in TokenNames : wallets[v][t].amount >= 0)
    /\ [][calls' # calls =>
            /\ wallets[exchange_ask'][BaseName].amount > 0
            /\ wallets[exchange_bid'][QuoteName].amount > 0]_vars

\* a profitable spread was sized at 0 because one of the two balances is empty
C30_Witness ==
    /\ last.sized
    /\ last.amount = 0
    /\ ~last.gathered
    /\ pc = "get"
    /\ wallets[exchange_ask][BaseName].amount > 0
    /\ wallets[exchange_bid][QuoteName].amount = 0

\* C31: with a threshold >= 0 and bids above 0 (a bid of 0 makes the division
\* raise), the step that issues a pair issues it on the tracked best ask and
\* best bid with best-ask price <= best-bid price, so in every issued pair the
\* price quoted to the buy leg is not above the price quoted to the sell leg.
C31_NeverBuyDearer ==
    /\ [][calls' # calls =>
            /\ best_ask'.ask <= best_bid'.bid
            /\ calls'[Len(calls') - 1].ticker = best_ask'
            /\ calls'[Len(calls')].ticker = best_bid']_vars
    /\ [](\A k \in 1 .. PairCount :
            BuyOf(k).ticker.ask <= SellOf(k).ticker.bid)

\* a pair issued at a spread of exactly 0 under a threshold of 0
C31_Witness ==
    /\ cfg.threshold.num = 0
    /\ PairCount = 1
    /\ BuyOf(1).ticker.ask = SellOf(1).ticker.bid
    /\ BuyOf(1).ticker.bid < BuyOf(1).ticker.ask

\* C32: a step that takes a Ticker leaves each tracked quote equal, in every
\* field, to the quote tracked before or to the ticker taken, also when the
\* diagnostic copies are built; the copies carry the venue as raw while the
\* tracked quotes keep the payload they were reported with; and the quote
\* handed to each leg is the tracked one, carrying the identifier under which
\* the venue of that leg reported it.
C32_EvaluationKeepsQuotes ==
    /\ [][TakesTicker =>
            /\ best_ask' \in {best_ask, Head(queue)[1]}
            /\ best_bid' \in {best_bid, Head(queue)[1]}
            /\ last'.copies # <<>> =>
                 /\ last'.copies[1] = [best_ask' EXCEPT !.raw = <<exchange_ask'>>]
                 /\ last'.copies[2] = [best_bid' EXCEPT !.raw = <<exchange_bid'>>]
            /\ calls' # calls =>
                 /\ last'.copies # <<>>
                 /\ calls'[Len(calls') - 1].ticker = best_ask'
                 /\ calls'[Len(calls')].ticker = best_bid']_vars
    /\ [](\A k \in 1 .. Len(calls) :
            /\ Len(calls[k].ticker.raw) = 2
            /\ calls[k].ticker.raw[1] = calls[k].exchange
            /\ calls[k].ticker.raw[2] \in 1 .. MaxTickers)

\* a pair has been issued after the copies were built: the copies name the
\* venues, the tracked quotes still carry what the venues reported
C32_Witness ==
    /\ PairCount = 1
    /\ last.kind = "Ticker"
    /\ Len(last.copies) = 2
    /\ last.copies[1].raw = <<exchange_ask>>
    /\ last.copies[2].raw = <<exchange_bid>>
    /\ best_ask.raw = <<exchange_ask, 1>>
    /\ best_bid.raw = <<exchange_bid, 2>>
    /\ BuyOf(1).ticker = best_ask
    /\ SellOf(1).ticker = best_bid

====
